---- MODULE Spec2Model ----
(***************************************************************************)
(* Model of the chai-backend relationship layer: the Like and Subscription *)
(* toggle handlers, the owner-scoped delete handlers and the cascade of    *)
(* deleteTweet, run as concurrent request handlers against one document    *)
(* store.  A handler is cut at its `await` points: the synchronous         *)
(* validation is taken together with the first store round trip, and each  *)
(* later store round trip is one step.  The handlers are interchangeable,  *)
(* so the requests in flight are kept as a bag.  A step that sends a       *)
(* response leaves it in `last`; the step after it, Deliver, hands it to   *)
(* the client.                                                             *)
(***************************************************************************)
EXTENDS Integers, FiniteSets, Sequences, Bags, TLC

\* ---------------------------------------------------------------- bounds
\* number of requests that can be in flight at the same time
NumProcs == 2
\* number of documents the store can create (cap of the _id counter)
MaxDocs == 2

\* ------------------------------------------------------------- universe
Null == "null"
\* the _id of no document: what findOne answers when nothing matches
NoDoc == 0
\* the users collection (no handler of the model creates or deletes users)
Users == {"u1", "u2"}
\* a well-formed user id that no user document has
GhostUser == "u9"
VideoIds == {"v1"}
CommentIds == {"c1"}
TweetIds == {"t1"}
PlaylistIds == {"p1"}
\* a well-formed id that no document of any collection has
GhostId == "x9"
\* the videos and comments of the stores the list operations are run on
ListVideoIds == {"v1", "v2", "v3"}
ListCommentIds == {"c1", "c2", "c3"}
ObjectIds == Users \cup {GhostUser} \cup VideoIds \cup CommentIds \cup TweetIds
             \cup PlaylistIds \cup {GhostId}
             \cup ListVideoIds \cup ListCommentIds

\* A request parameter is a string: either a 24-digit hex string, written
\* in lower or in upper case digits, or a string that is no ObjectId.
BadParam == [hex |-> Null, upper |-> FALSE]
HexStrings == [hex : ObjectIds, upper : BOOLEAN]
\* the parameter strings a handler is called with: the ids of one
\* collection in either case, and a malformed string
ParamsOf(ids) == {s \in HexStrings : s.hex \in ids} \cup {BadParam}

\* mongoose.isValidObjectId: hex strings are accepted in either case
isValidObjectId(s) == s \in HexStrings
\* the cast mongoose applies to a string used where an ObjectId is expected
castObjectId(s) == s.hex
\* ObjectId.prototype.toString: the lower-case hex string
toString(oid) == [hex |-> oid, upper |-> FALSE]

\* a request parameter that is not given (undefined, falsy)
NoParam == [hex |-> "", upper |-> FALSE]

\* A value of req.query is a string, or is not given.  Strings are
\* sequences of characters.
Given(text) == [given |-> TRUE, text |-> text]
NotGiven == [given |-> FALSE, text |-> <<>>]
\* const { page = 1, limit = 10 } = req.query: the default of a
\* destructuring applies to a value that is not given
Default(v, text) == IF v.given THEN v.text ELSE text

Digits == {"0", "1", "2", "3", "4", "5", "6", "7", "8", "9"}
DigitVal(c) ==
    CASE c = "0" -> 0 [] c = "1" -> 1 [] c = "2" -> 2 [] c = "3" -> 3
      [] c = "4" -> 4 [] c = "5" -> 5 [] c = "6" -> 6 [] c = "7" -> 7
      [] c = "8" -> 8 [] c = "9" -> 9

\* the longest prefix of text made of digits
RECURSIVE DigitsPrefix(_)
DigitsPrefix(text) ==
    IF text = <<>> \/ Head(text) \notin Digits THEN <<>>
    ELSE <<Head(text)>> \o DigitsPrefix(Tail(text))

\* the number a sequence of digits writes in base 10
RECURSIVE NumberOf(_)
NumberOf(ds) ==
    IF ds = <<>> THEN 0
    ELSE 10 * NumberOf(SubSeq(ds, 1, Len(ds) - 1)) + DigitVal(ds[Len(ds)])

\* parseInt(text, 10): an optional sign and the longest run of digits after
\* it; whatever follows is ignored; NaN when there is no digit
parseInt(text) ==
    LET neg == text # <<>> /\ Head(text) = "-"
        ds == DigitsPrefix(IF neg THEN Tail(text) ELSE text)
    IN IF ds = <<>> THEN [nan |-> TRUE, val |-> 0]
       ELSE [nan |-> FALSE, val |-> IF neg THEN 0 - NumberOf(ds) ELSE NumberOf(ds)]

\* isNaN(n) || n < 1
IsBadNumber(n) == n.nan \/ n.val < 1

\* the strings the page and limit parameters are given as
PageTexts == {<<"1">>, <<"2">>, <<"0">>, <<"1", ".", "5">>, <<"x">>}
LimitTexts == {<<"1">>, <<"2">>, <<"0">>, <<"2", "x">>, <<"-", "1">>}
PageValues == {Given(t) : t \in PageTexts} \cup {NotGiven}
LimitValues == {Given(t) : t \in LimitTexts} \cup {NotGiven}

\* $regex with $options "i": the pattern occurs in the text, letters
\* compared without regard to case
Lower(c) ==
    CASE c = "A" -> "a" [] c = "T" -> "t" [] c = "D" -> "d" [] OTHER -> c
LowerText(text) == [i \in 1..Len(text) |-> Lower(text[i])]
RegexMatch(text, pattern) ==
    \E i \in 1..(Len(text) - Len(pattern) + 1) :
       LowerText(SubSeq(text, i, i + Len(pattern) - 1)) = LowerText(pattern)

\* String.prototype.trim: the text without the blanks at its ends
RECURSIVE TrimStart(_)
TrimStart(text) ==
    IF text # <<>> /\ Head(text) = " " THEN TrimStart(Tail(text)) ELSE text
RECURSIVE TrimEnd(_)
TrimEnd(text) ==
    IF text # <<>> /\ text[Len(text)] = " "
    THEN TrimEnd(SubSeq(text, 1, Len(text) - 1))
    ELSE text
Trim(text) == TrimEnd(TrimStart(text))

\* the texts an update is called with: blanks only, and a word after a blank
Contents == {<<" ">>, <<" ", "b">>}

\* the search strings: none, and two patterns
Queries == {<<>>, <<"A", "T">>, <<"d", "o", "g">>}

\* req.user: the authenticated user's document, or none
Actors == Users \cup {Null}

VARIABLES
    likes,          \* the Like collection
    subscriptions,  \* the Subscription collection
    tweets,         \* the Tweet collection
    videos,         \* the Video collection
    comments,       \* the Comment collection
    nextId,         \* the next _id the store hands out
    req,            \* the bag of the requests in flight, each with its position
    last,           \* the response that has been sent and is not delivered yet
    prev,           \* serial runs: the response delivered last
    serial,         \* TRUE: each request completes before the next starts
    ntoggles,       \* serial runs, per edge key: successful toggle calls;
                    \* per publish key: their number modulo 2
    playlists       \* the Playlist collection

vars == <<likes, subscriptions, tweets, videos, comments, nextId, req, last,
          prev, serial, ntoggles, playlists>>

\* likeSchema: exactly one of video / comment / tweet is set by the handlers
LikeDoc(id, kind, target, user) ==
    [_id |-> id,
     video |-> IF kind = "video" THEN target ELSE Null,
     comment |-> IF kind = "comment" THEN target ELSE Null,
     tweet |-> IF kind = "tweet" THEN target ELSE Null,
     likedBy |-> user]

\* subscriptionSchema
SubscriptionDoc(id, user, channel) ==
    [_id |-> id, subscriber |-> user, channel |-> channel]

LikeTarget(d, kind) ==
    CASE kind = "video" -> d.video
      [] kind = "comment" -> d.comment
      [] kind = "tweet" -> d.tweet

\* videoSchema: the fields the handlers read or write
VideoDoc(id, owner, isPublished, title, description, createdAt, views, duration) ==
    [_id |-> id, owner |-> owner, isPublished |-> isPublished, title |-> title,
     description |-> description, createdAt |-> createdAt, views |-> views,
     duration |-> duration]

\* commentSchema
CommentDoc(id, owner, video, content, createdAt) ==
    [_id |-> id, owner |-> owner, video |-> video, content |-> content,
     createdAt |-> createdAt]

\* tweetSchema
TweetDoc(id, owner, content) == [_id |-> id, owner |-> owner, content |-> content]

\* playlistSchema: videos is an array of video ids
PlaylistDoc(id, owner, name, videoIds) ==
    [_id |-> id, owner |-> owner, name |-> name, videos |-> videoIds]

\* the username a user registered with (stored in lower case)
UserName(id) == IF id = "u1" THEN <<"a">> ELSE <<"t">>

\* a document of the users collection as registerUser and
\* generateAccessAndRefreshToken leave it: the password hash and the
\* refresh token are fields of the document
UserDoc(id, watchHistory) ==
    [_id |-> id, username |-> UserName(id), fullName |-> UserName(id),
     avatar |-> "url", password |-> "hash", refreshToken |-> "jwt",
     watchHistory |-> watchHistory]

\* the users collection: u1 and u2 have watched videos
UserDocs == {UserDoc("u1", <<"v1", "v2">>), UserDoc("u2", <<"v1">>)}

\* a request that has not reached the handler yet
Idle == [op |-> "none", pc |-> "idle", user |-> Null, target |-> Null,
         existing |-> NoDoc, video |-> NoParam]

\* a response: the call (op, user, target, the edge its findOne returned),
\* the HTTP status, the isLiked / isSubscribed flag of the body, what the
\* store did to the call's write, and for a subscription toggle the
\* channel's subscribersCount when the write was issued
\* req.query of a list operation that was not called
NoArgs == [userId |-> NoParam, query |-> <<>>, sortBy |-> "", sortType |-> "",
           page |-> NotGiven, limit |-> NotGiven]

\* For a list operation the response also holds req.query (args), the
\* records of the body and the total the body reports.  For a read that
\* joins, views holds for each record of the body its _id and the fields
\* the pipeline adds.
NoResponse == [op |-> "none", user |-> Null, target |-> Null,
               existing |-> NoDoc, status |-> 0, flag |-> Null,
               conflict |-> FALSE, cascadeFailed |-> FALSE, deletedCount |-> 0,
               countBefore |-> 0, args |-> NoArgs, records |-> <<>>,
               total |-> 0, video |-> NoParam, views |-> <<>>]

\* res.status(code).json(body), or the ApiError thrown with that status
Response(r, code, flag) ==
    [NoResponse EXCEPT !.op = r.op, !.user = r.user, !.target = r.target,
                       !.existing = r.existing, !.status = code, !.flag = flag,
                       !.video = r.video]

\* the keys of the edges: (kind, actor, target)
EdgeKeys == ({"video"} \X Users \X VideoIds)
            \cup ({"comment"} \X Users \X CommentIds)
            \cup ({"tweet"} \X Users \X TweetIds)
            \cup ({"subscription"} \X Users \X Users)

\* the keys of the publish toggles: (owner, video)
PublishKeys == {"publish"} \X Users \X VideoIds

\* no edge, no request, no response
InitEmpty ==
    /\ likes = {}
    /\ subscriptions = {}
    /\ nextId = 1
    /\ req = EmptyBag
    /\ last = NoResponse
    /\ prev = NoResponse
    /\ ntoggles = [k \in EdgeKeys \cup PublishKeys |-> 0]

InitStore ==
    /\ InitEmpty
    /\ tweets = {TweetDoc("t1", "u1", <<"a">>)}
    /\ videos = {VideoDoc("v1", "u1", TRUE, <<"c", "a", "t">>, <<"d", "o", "g">>,
                           1, 5, 3)}
    /\ comments = {CommentDoc("c1", "u2", "v1", <<"a">>, 1)}
    /\ playlists = {PlaylistDoc("p1", "u1", <<"a">>, <<>>)}

Init == InitStore /\ serial = FALSE

\* the videos of the store the list operations are run on: two of u1 and
\* one of u2, each published or not
ListVideo(id, isPublished) ==
    CASE id = "v1" -> VideoDoc("v1", "u1", isPublished, <<"c", "a", "t">>,
                               <<"d", "o", "g">>, 1, 5, 3)
      [] id = "v2" -> VideoDoc("v2", "u1", isPublished, <<"h", "a", "t">>,
                               <<"h", "a", "t">>, 2, 5, 1)
      [] id = "v3" -> VideoDoc("v3", "u2", isPublished, <<"d", "o", "g">>,
                               <<"d", "o", "g">>, 3, 7, 2)

\* its comments: two on v1, one on v2, none on v3
ListComments ==
    {CommentDoc("c1", "u1", "v1", <<"a">>, 1),
     CommentDoc("c2", "u2", "v1", <<"b">>, 2),
     CommentDoc("c3", "u2", "v2", <<"c">>, 3)}

\* a store for the list operations
InitList ==
    /\ InitEmpty
    /\ serial = FALSE
    /\ tweets = {}
    /\ playlists = {}
    /\ \E pub \in [ListVideoIds -> BOOLEAN] :
          videos = {ListVideo(id, pub[id]) : id \in ListVideoIds}
    /\ comments = ListComments

InitSeq == InitStore /\ serial = TRUE

\* the edges a store for the reads may hold
ViewLikes == {LikeDoc(1, "tweet", "t1", "u1"), LikeDoc(2, "tweet", "t1", "u2"),
              LikeDoc(3, "comment", "c1", "u2"), LikeDoc(4, "video", "v1", "u1")}
ViewSubscriptions == {SubscriptionDoc(5, "u1", "u2")}

\* a store for the reads: some of the edges; a video of u1, published or
\* not; a tweet, a comment and a video whose owner has no user document
\* any more; a playlist of u1 or of such an owner
InitView ==
    /\ nextId = 6
    /\ req = EmptyBag
    /\ last = NoResponse
    /\ prev = NoResponse
    /\ ntoggles = [k \in EdgeKeys \cup PublishKeys |-> 0]
    /\ serial = FALSE
    /\ likes \in SUBSET ViewLikes
    /\ subscriptions \in SUBSET ViewSubscriptions
    /\ tweets = {TweetDoc("t1", "u1", <<"a">>), TweetDoc("t2", GhostUser, <<"b">>)}
    /\ comments = {CommentDoc("c1", "u2", "v1", <<"a">>, 1),
                   CommentDoc("c2", GhostUser, "v1", <<"b">>, 2)}
    /\ \E isPublished \in BOOLEAN, owner \in {"u1", GhostUser} :
          /\ videos = {VideoDoc("v1", "u1", isPublished, <<"c", "a", "t">>,
                                 <<"d", "o", "g">>, 1, 5, 3),
                       VideoDoc("v2", GhostUser, TRUE, <<"h", "a", "t">>,
                                 <<"h", "a", "t">>, 2, 5, 1)}
          /\ playlists = {PlaylistDoc("p1", owner, <<"a">>, <<"v1", "v2">>)}

\* no response is waiting for its delivery
Ready == last = NoResponse

\* the requests in flight
InFlight == BagToSet(req)

\* a request is accepted while a handler is free, and in a serial run only
\* when no other request is being served
CanStart ==
    /\ Ready
    /\ BagCardinality(req) < NumProcs
    /\ serial => req = EmptyBag

\* a request enters its handler at position r / leaves it
Enter(r) == req (+) SetToBag({r})
Leave(r) == req (-) SetToBag({r})

\* the requests that are about to create a document
Creating == [r \in {x \in InFlight : x.pc = "create"} |-> req[r]]
\* the _id counter is capped: a call that will create a document starts
\* only while an _id is left for every request that is about to create
CanCreate == nextId + BagCardinality(Creating) <= MaxDocs

\* the observers of a serial run
Counted(k) ==
    IF serial THEN [ntoggles EXCEPT ![k] = @ + 1] ELSE ntoggles

\* the observer of the publish toggles: whether the number of the
\* successful togglePublishStatus calls of the key is odd (1) or even (0)
CountedPublish(k) == [ntoggles EXCEPT ![k] = (@ + 1) % 2]

\* ------------------------------------------------------ store operations
\* a lookup that filters on the target alone
FindOneLike_TargetOnly(kind, target, user) ==
    {d \in likes : LikeTarget(d, kind) = target}

\* Like.findOne({ <kind>: id, likedBy: req.user._id }): the matching documents
FindOneLike(kind, target, user) ==
    {d \in likes : LikeTarget(d, kind) = target /\ d.likedBy = user}

\* a delete that reports the document and leaves it in the collection
FindByIdAndDelete_Keeps(coll, id) == coll

\* Model.findByIdAndDelete(_id): the collection after the call
FindByIdAndDelete(coll, id) == {d \in coll : d._id # id}

\* Like.create({ <kind>: id, likedBy: req.user._id }): the collection after it.
\* likeSchema declares no unique index, so the store takes every document.
CreateLike(kind, target, user) ==
    likes \cup {LikeDoc(nextId, kind, target, user)}

\* a lookup with subscriber and channel exchanged
FindOneSubscription_Swapped(user, channel) ==
    {d \in subscriptions : d.subscriber = channel /\ d.channel = user}

\* Subscription.findOne({ subscriber: req.user._id, channel: channelId })
FindOneSubscription(user, channel) ==
    {d \in subscriptions : d.subscriber = user /\ d.channel = channel}

\* Subscription.create({ subscriber: req.user._id, channel: channelId })
CreateSubscription(user, channel) ==
    subscriptions \cup {SubscriptionDoc(nextId, user, channel)}

\* a lookup by _id alone
FindOwned_AnyOwner(coll, id, user) == {d \in coll : d._id = id}

\* Model.findOneAndDelete / findOneAndUpdate / findOne with the filter
\* { _id: id, owner: req.user._id }: the matches
FindOwned(coll, id, user) == {d \in coll : d._id = id /\ d.owner = user}

\* a failure that tells a document of another owner from no document
NotFoundStatus_Forbidden(coll, id) ==
    IF \E d \in coll : d._id = id THEN 403 ELSE 404

\* the status of an owner-scoped lookup that found nothing: the handlers
\* throw ApiError(404) whether the id has no document or the document has
\* another owner
NotFoundStatus(coll, id) == 404

\* a cascade that filters on the wrong field of the Like documents
TweetLikes_WrongField(tweetId) == {d \in likes : d.video = tweetId}

\* Like.deleteMany({ tweet: tweetId }): the documents the filter selects
TweetLikes(tweetId) == {d \in likes : d.tweet = tweetId}

\* getUserChannelProfile: subscribersCount is the $size of the $lookup of
\* the subscriptions whose channel is the user's _id
subscribersCount(channel) ==
    Cardinality({d \in subscriptions : d.channel = channel})

\* --------------------------------------------------------- like toggles
LikeKey(kind, user, target) == <<kind, user, target>>

\* validation and the findOne round trip of toggleVideoLike /
\* toggleCommentLike / toggleTweetLike
ToggleLikeStart(op, kind, user, param) ==
    /\ CanStart
    /\ LET r == [Idle EXCEPT !.op = op] IN
       IF ~isValidObjectId(param)
       THEN /\ last' = Response(r, 400, Null)
            /\ UNCHANGED req
       ELSE IF user = Null
       THEN /\ last' = Response(r, 401, Null)
            /\ UNCHANGED req
       ELSE LET target == castObjectId(param)
                found == FindOneLike(kind, target, user)
                r2 == [r EXCEPT !.user = user, !.target = target]
            IN /\ UNCHANGED last
               /\ IF found = {}
                  THEN /\ CanCreate
                       /\ req' = Enter([r2 EXCEPT !.pc = "create"])
                  ELSE \E d \in found :
                          req' = Enter([r2 EXCEPT !.pc = "delete",
                                                  !.existing = d._id])
    /\ UNCHANGED <<likes, subscriptions, tweets, videos, comments, nextId,
                   serial, playlists, ntoggles, prev>>

\* if (existingLike) { findByIdAndDelete; if (!deletedLike) throw 500; 200 }
ToggleLikeDelete(r, op, kind) ==
    /\ Ready
    /\ r \in InFlight
    /\ r.pc = "delete"
    /\ r.op = op
    /\ IF \E d \in likes : d._id = r.existing
       THEN /\ likes' = FindByIdAndDelete(likes, r.existing)
            /\ last' = Response(r, 200, FALSE)
            /\ ntoggles' = Counted(LikeKey(kind, r.user, r.target))
       ELSE /\ last' = Response(r, 500, Null)
            /\ UNCHANGED <<likes, ntoggles>>
    /\ req' = Leave(r)
    /\ UNCHANGED <<subscriptions, tweets, videos, comments, nextId, serial, playlists, prev>>

\* Like.create(...); if (!like) throw 500; 201.  The store may reject the
\* write; nothing catches the rejection, so it reaches the caller as an error.
ToggleLikeCreate(r, op, kind) ==
    /\ Ready
    /\ r \in InFlight
    /\ r.pc = "create"
    /\ r.op = op
    /\ \E rejected \in BOOLEAN :
          IF rejected
          THEN /\ last' = [Response(r, 500, Null) EXCEPT
                             !.conflict = (FindOneLike(kind, r.target, r.user) # {})]
               /\ UNCHANGED <<likes, nextId, ntoggles>>
          ELSE /\ likes' = CreateLike(kind, r.target, r.user)
               /\ nextId' = nextId + 1
               /\ last' = Response(r, 201, TRUE)
               /\ ntoggles' = Counted(LikeKey(kind, r.user, r.target))
    /\ req' = Leave(r)
    /\ UNCHANGED <<subscriptions, tweets, videos, comments, serial, playlists, prev>>

ToggleLike(op, kind, ids) ==
    \/ /\ CanStart
       /\ \E user \in Actors, param \in ParamsOf(ids) :
             ToggleLikeStart(op, kind, user, param)
    \/ \E r \in InFlight : ToggleLikeDelete(r, op, kind)
    \/ \E r \in InFlight : ToggleLikeCreate(r, op, kind)

toggleVideoLike == ToggleLike("toggleVideoLike", "video", VideoIds)
toggleCommentLike == ToggleLike("toggleCommentLike", "comment", CommentIds)
toggleTweetLike == ToggleLike("toggleTweetLike", "tweet", TweetIds)

\* -------------------------------------------------- subscription toggle
SubKey(user, channel) == <<"subscription", user, channel>>

\* if (channelId === req.user._id.toString()): a comparison of two strings
IsOwnChannel(channelId, user) == channelId = toString(user)

\* User.findById(channelId)
ChannelExists(channelId) == castObjectId(channelId) \in Users

\* validation, User.findById and the findOne round trip.  The users
\* collection never changes, so the two reads are taken as one step.
ToggleSubscriptionStart(user, channelId) ==
    /\ CanStart
    /\ LET r == [Idle EXCEPT !.op = "toggleSubscription"] IN
       IF ~isValidObjectId(channelId)
       THEN /\ last' = Response(r, 400, Null)
            /\ UNCHANGED req
       ELSE IF user = Null
       THEN /\ last' = Response(r, 401, Null)
            /\ UNCHANGED req
       ELSE LET r2 == [r EXCEPT !.user = user, !.target = castObjectId(channelId)] IN
            IF IsOwnChannel(channelId, user)
            THEN /\ last' = Response(r2, 400, Null)
                 /\ UNCHANGED req
            ELSE IF ~ChannelExists(channelId)
            THEN /\ last' = Response(r2, 404, Null)
                 /\ UNCHANGED req
            ELSE LET found == FindOneSubscription(user, r2.target) IN
                 /\ UNCHANGED last
                 /\ IF found = {}
                    THEN /\ CanCreate
                         /\ req' = Enter([r2 EXCEPT !.pc = "create"])
                    ELSE \E d \in found :
                            req' = Enter([r2 EXCEPT !.pc = "delete",
                                                    !.existing = d._id])
    /\ UNCHANGED <<likes, subscriptions, tweets, videos, comments, nextId,
                   serial, playlists, ntoggles, prev>>

\* findByIdAndDelete; if (!deletedSubscription) throw 500; 200
ToggleSubscriptionDelete(r) ==
    /\ Ready
    /\ r \in InFlight
    /\ r.pc = "delete"
    /\ r.op = "toggleSubscription"
    /\ IF \E d \in subscriptions : d._id = r.existing
       THEN /\ subscriptions' = FindByIdAndDelete(subscriptions, r.existing)
            /\ last' = [Response(r, 200, FALSE) EXCEPT
                          !.countBefore = subscribersCount(r.target)]
            /\ ntoggles' = Counted(SubKey(r.user, r.target))
       ELSE /\ last' = Response(r, 500, Null)
            /\ UNCHANGED <<subscriptions, ntoggles>>
    /\ req' = Leave(r)
    /\ UNCHANGED <<likes, tweets, videos, comments, nextId, serial, playlists, prev>>

\* Subscription.create(...); if (!newSubscription) throw 500; 201
ToggleSubscriptionCreate(r) ==
    /\ Ready
    /\ r \in InFlight
    /\ r.pc = "create"
    /\ r.op = "toggleSubscription"
    /\ \E rejected \in BOOLEAN :
          IF rejected
          THEN /\ last' = [Response(r, 500, Null) EXCEPT
                             !.conflict = (FindOneSubscription(r.user, r.target) # {})]
               /\ UNCHANGED <<subscriptions, nextId, ntoggles>>
          ELSE /\ subscriptions' = CreateSubscription(r.user, r.target)
               /\ nextId' = nextId + 1
               /\ last' = [Response(r, 201, TRUE) EXCEPT
                             !.countBefore = subscribersCount(r.target)]
               /\ ntoggles' = Counted(SubKey(r.user, r.target))
    /\ req' = Leave(r)
    /\ UNCHANGED <<likes, tweets, videos, comments, serial, playlists, prev>>

toggleSubscription ==
    \/ /\ CanStart
       /\ \E user \in Actors, channelId \in ParamsOf(Users \cup {GhostUser}) :
             ToggleSubscriptionStart(user, channelId)
    \/ \E r \in InFlight : ToggleSubscriptionDelete(r)
    \/ \E r \in InFlight : ToggleSubscriptionCreate(r)

\* ----------------------------------------------- owner-scoped deletions
\* validation and Tweet.findOneAndDelete({ _id, owner: req.user._id })
DeleteTweetStart(user, tweetId) ==
    /\ CanStart
    /\ LET r == [Idle EXCEPT !.op = "deleteTweet"] IN
       IF ~isValidObjectId(tweetId)
       THEN /\ last' = Response(r, 400, Null)
            /\ UNCHANGED <<req, tweets>>
       ELSE IF user = Null
       THEN /\ last' = Response(r, 401, Null)
            /\ UNCHANGED <<req, tweets>>
       ELSE LET r2 == [r EXCEPT !.user = user, !.target = castObjectId(tweetId)]
                found == FindOwned(tweets, r2.target, user)
            IN IF found = {}
               THEN /\ last' = Response(r2, NotFoundStatus(tweets, r2.target), Null)
                    /\ UNCHANGED <<req, tweets>>
               ELSE /\ tweets' = tweets \ found
                    /\ req' = Enter([r2 EXCEPT !.pc = "deleteMany"])
                    /\ UNCHANGED last
    /\ UNCHANGED <<likes, subscriptions, videos, comments, nextId,
                   serial, playlists, ntoggles, prev>>

\* a cascade failure that is thrown on to the caller
DeleteTweetStatus_Rethrown(cascadeFailed) == IF cascadeFailed THEN 500 ELSE 200

\* the status deleteTweet answers with once the tweet is removed: the catch
\* around Like.deleteMany only logs, and the 200 response follows
DeleteTweetStatus(cascadeFailed) == 200

\* try { await Like.deleteMany({ tweet: tweetId }) } catch { console.error }
\* and the response; a deleteMany that throws may have removed any part of
\* the documents its filter selects before it failed
DeleteTweetCascade(r) ==
    /\ Ready
    /\ r \in InFlight
    /\ r.pc = "deleteMany"
    /\ \E failed \in BOOLEAN :
          IF failed
          THEN /\ last' = [Response(r, DeleteTweetStatus(TRUE), Null) EXCEPT
                             !.cascadeFailed = TRUE]
               /\ \E removed \in SUBSET TweetLikes(r.target) :
                     likes' = likes \ removed
          ELSE /\ likes' = likes \ TweetLikes(r.target)
               /\ last' = [Response(r, DeleteTweetStatus(FALSE), Null) EXCEPT
                             !.deletedCount = Cardinality(TweetLikes(r.target))]
    /\ req' = Leave(r)
    /\ UNCHANGED <<subscriptions, tweets, videos, comments, nextId, serial, playlists, ntoggles, prev>>

deleteTweet ==
    \/ /\ CanStart
       /\ \E user \in Actors, tweetId \in ParamsOf(TweetIds) :
             DeleteTweetStart(user, tweetId)
    \/ \E r \in InFlight : DeleteTweetCascade(r)

\* a deletion that removes the Like edges of its target as deleteTweet does
LikesAfterDelete_Cascading(kind, id) == {d \in likes : LikeTarget(d, kind) # id}

\* the Like collection after deleteVideo / deleteComment has removed the
\* document: neither handler issues a write to it (deleteComment keeps the
\* cascade as a commented-out TODO)
LikesAfterDelete(kind, id) == likes

\* deleteVideo: validation, Video.findOneAndDelete, 404 or 200
DeleteVideo(user, videoId) ==
    /\ CanStart
    /\ LET r == [Idle EXCEPT !.op = "deleteVideo"] IN
       IF ~isValidObjectId(videoId)
       THEN /\ last' = Response(r, 400, Null)
            /\ UNCHANGED <<videos, likes>>
       ELSE IF user = Null
       THEN /\ last' = Response(r, 401, Null)
            /\ UNCHANGED <<videos, likes>>
       ELSE LET r2 == [r EXCEPT !.user = user, !.target = castObjectId(videoId)]
                found == FindOwned(videos, r2.target, user)
            IN IF found = {}
               THEN /\ last' = Response(r2, NotFoundStatus(videos, r2.target), Null)
                    /\ UNCHANGED <<videos, likes>>
               ELSE /\ videos' = videos \ found
                    /\ likes' = LikesAfterDelete("video", r2.target)
                    /\ last' = Response(r2, 200, Null)
    /\ UNCHANGED <<subscriptions, tweets, comments, nextId, req,
                   serial, playlists, ntoggles, prev>>

deleteVideo ==
    /\ CanStart
    /\ \E user \in Actors, videoId \in ParamsOf(VideoIds) :
          DeleteVideo(user, videoId)

\* deleteComment: validation, Comment.findOneAndDelete, 404 or 200
DeleteComment(user, commentId) ==
    /\ CanStart
    /\ LET r == [Idle EXCEPT !.op = "deleteComment"] IN
       IF ~isValidObjectId(commentId)
       THEN /\ last' = Response(r, 400, Null)
            /\ UNCHANGED <<comments, likes>>
       ELSE IF user = Null
       THEN /\ last' = Response(r, 401, Null)
            /\ UNCHANGED <<comments, likes>>
       ELSE LET r2 == [r EXCEPT !.user = user, !.target = castObjectId(commentId)]
                found == FindOwned(comments, r2.target, user)
            IN IF found = {}
               THEN /\ last' = Response(r2, NotFoundStatus(comments, r2.target), Null)
                    /\ UNCHANGED <<comments, likes>>
               ELSE /\ comments' = comments \ found
                    /\ likes' = LikesAfterDelete("comment", r2.target)
                    /\ last' = Response(r2, 200, Null)
    /\ UNCHANGED <<subscriptions, tweets, videos, nextId, req,
                   serial, playlists, ntoggles, prev>>

deleteComment ==
    /\ CanStart
    /\ \E user \in Actors, commentId \in ParamsOf(CommentIds) :
          DeleteComment(user, commentId)

\* ----------------------------------------------- owner-scoped updates
\* the collection with the field of the document id set to text
SetContent(coll, id, text) ==
    {IF d._id = id THEN [d EXCEPT !.content = text] ELSE d : d \in coll}
SetTitle(coll, id, text) ==
    {IF d._id = id THEN [d EXCEPT !.title = text] ELSE d : d \in coll}
SetName(coll, id, text) ==
    {IF d._id = id THEN [d EXCEPT !.name = text] ELSE d : d \in coll}

\* updateTweet: validation and Tweet.findOneAndUpdate({ _id, owner },
\* { $set: { content: content.trim() } })
UpdateTweetStart(user, tweetId, content) ==
    /\ CanStart
    /\ LET r == [Idle EXCEPT !.op = "updateTweet"] IN
       IF ~isValidObjectId(tweetId) \/ Trim(content) = <<>>
       THEN /\ last' = Response(r, 400, Null)
            /\ UNCHANGED <<req, tweets>>
       ELSE IF user = Null
       THEN /\ last' = Response(r, 401, Null)
            /\ UNCHANGED <<req, tweets>>
       ELSE LET r2 == [r EXCEPT !.user = user, !.target = castObjectId(tweetId)]
                found == FindOwned(tweets, r2.target, user)
            IN IF found = {}
               THEN /\ last' = Response(r2, NotFoundStatus(tweets, r2.target), Null)
                    /\ UNCHANGED <<req, tweets>>
               ELSE /\ tweets' = SetContent(tweets, r2.target, Trim(content))
                    /\ req' = Enter([r2 EXCEPT !.pc = "details"])
                    /\ UNCHANGED last
    /\ UNCHANGED <<likes, subscriptions, videos, comments, nextId,
                   serial, ntoggles, prev, playlists>>

\* getTweetWithDetails and, when it finds nothing, Tweet.findById: 200 with
\* the tweet, or 500 when the tweet is gone
UpdateTweetDetails(r) ==
    /\ Ready
    /\ r \in InFlight
    /\ r.op = "updateTweet"
    /\ r.pc = "details"
    /\ last' = Response(r, IF \E d \in tweets : d._id = r.target THEN 200 ELSE 500,
                        Null)
    /\ req' = Leave(r)
    /\ UNCHANGED <<likes, subscriptions, tweets, videos, comments, nextId,
                   serial, ntoggles, prev, playlists>>

updateTweet ==
    \/ /\ CanStart
       /\ \E user \in Actors, tweetId \in ParamsOf(TweetIds \cup {GhostId}),
             content \in Contents :
             UpdateTweetStart(user, tweetId, content)
    \/ \E r \in InFlight : UpdateTweetDetails(r)

\* updateComment: validation, Comment.findOneAndUpdate({ _id, owner },
\* { $set: { content: content.trim() } }), 404 or 200
UpdateComment(user, commentId, content) ==
    /\ CanStart
    /\ LET r == [Idle EXCEPT !.op = "updateComment"] IN
       IF ~isValidObjectId(commentId) \/ Trim(content) = <<>>
       THEN /\ last' = Response(r, 400, Null)
            /\ UNCHANGED comments
       ELSE IF user = Null
       THEN /\ last' = Response(r, 401, Null)
            /\ UNCHANGED comments
       ELSE LET r2 == [r EXCEPT !.user = user, !.target = castObjectId(commentId)]
                found == FindOwned(comments, r2.target, user)
            IN IF found = {}
               THEN /\ last' = Response(r2, NotFoundStatus(comments, r2.target), Null)
                    /\ UNCHANGED comments
               ELSE /\ comments' = SetContent(comments, r2.target, Trim(content))
                    /\ last' = Response(r2, 200, Null)
    /\ UNCHANGED <<likes, subscriptions, tweets, videos, nextId, req,
                   serial, ntoggles, prev, playlists>>

updateComment ==
    /\ CanStart
    /\ \E user \in Actors, commentId \in ParamsOf(CommentIds \cup {GhostId}),
          content \in Contents :
          UpdateComment(user, commentId, content)

\* updateVideo called with a title and nothing else: validation,
\* Video.findOneAndUpdate({ _id, owner }, { $set: { title } }) with the
\* title as it was given, 404 or 200
UpdateVideo(user, videoId, title) ==
    /\ CanStart
    /\ LET r == [Idle EXCEPT !.op = "updateVideo"] IN
       IF ~isValidObjectId(videoId) \/ Trim(title) = <<>>
       THEN /\ last' = Response(r, 400, Null)
            /\ UNCHANGED videos
       ELSE IF user = Null
       THEN /\ last' = Response(r, 401, Null)
            /\ UNCHANGED videos
       ELSE LET r2 == [r EXCEPT !.user = user, !.target = castObjectId(videoId)]
                found == FindOwned(videos, r2.target, user)
            IN IF found = {}
               THEN /\ last' = Response(r2, NotFoundStatus(videos, r2.target), Null)
                    /\ UNCHANGED videos
               ELSE /\ videos' = SetTitle(videos, r2.target, title)
                    /\ last' = Response(r2, 200, Null)
    /\ UNCHANGED <<likes, subscriptions, tweets, comments, nextId, req,
                   serial, ntoggles, prev, playlists>>

updateVideo ==
    /\ CanStart
    /\ \E user \in Actors, videoId \in ParamsOf(VideoIds \cup {GhostId}),
          title \in Contents :
          UpdateVideo(user, videoId, title)

\* togglePublishStatus: validation and Video.findOne({ _id, owner })
TogglePublishStart(user, videoId) ==
    /\ CanStart
    /\ LET r == [Idle EXCEPT !.op = "togglePublishStatus"] IN
       IF ~isValidObjectId(videoId)
       THEN /\ last' = Response(r, 400, Null)
            /\ UNCHANGED req
       ELSE IF user = Null
       THEN /\ last' = Response(r, 401, Null)
            /\ UNCHANGED req
       ELSE LET r2 == [r EXCEPT !.user = user, !.target = castObjectId(videoId)]
                found == FindOwned(videos, r2.target, user)
            IN IF found = {}
               THEN /\ last' = Response(r2, NotFoundStatus(videos, r2.target), Null)
                    /\ UNCHANGED req
               ELSE /\ \E d \in found :
                          req' = Enter([r2 EXCEPT !.pc = "save", !.existing = d])
                    /\ UNCHANGED last
    /\ UNCHANGED <<likes, subscriptions, tweets, videos, comments, nextId,
                   serial, ntoggles, prev, playlists>>

\* video.isPublished = !video.isPublished; video.save(): the store sets the
\* changed field of the document with the id, and the save fails when the
\* document is gone
TogglePublishSave(r) ==
    /\ Ready
    /\ r \in InFlight
    /\ r.op = "togglePublishStatus"
    /\ r.pc = "save"
    /\ IF \E d \in videos : d._id = r.target
       THEN /\ videos' = {IF d._id = r.target
                          THEN [d EXCEPT !.isPublished = ~r.existing.isPublished]
                          ELSE d : d \in videos}
            /\ last' = Response(r, 200, ~r.existing.isPublished)
            /\ ntoggles' = CountedPublish(<<"publish", r.user, r.target>>)
       ELSE /\ last' = Response(r, 500, Null)
            /\ UNCHANGED <<videos, ntoggles>>
    /\ req' = Leave(r)
    /\ UNCHANGED <<likes, subscriptions, tweets, comments, nextId,
                   serial, prev, playlists>>

togglePublishStatus ==
    \/ /\ CanStart
       /\ \E user \in Actors, videoId \in ParamsOf(VideoIds \cup {GhostId}) :
             TogglePublishStart(user, videoId)
    \/ \E r \in InFlight : TogglePublishSave(r)

\* ------------------------------------------------------------ playlists
\* playlist.videos.includes(videoId): the array of a mongoose document
\* compares the string with the string form of each of its ids
Includes(videoIds, videoId) ==
    \E i \in 1..Len(videoIds) : toString(videoIds[i]) = videoId

\* an update that appends the id whether or not the array holds it
AddToSet_Push(videoIds, videoId) == Append(videoIds, castObjectId(videoId))

\* { $addToSet: { videos: videoId } }: the id is cast and appended unless
\* the array holds it
AddToSet(videoIds, videoId) ==
    IF \E i \in 1..Len(videoIds) : videoIds[i] = castObjectId(videoId)
    THEN videoIds
    ELSE Append(videoIds, castObjectId(videoId))

\* { $pull: { videos: videoId } }: every occurrence of the id is removed
Pull(videoIds, videoId) ==
    SelectSeq(videoIds, LAMBDA v : v # castObjectId(videoId))

\* Playlist.findByIdAndUpdate(playlistId, update): the collection after it
UpdateById(id, videoIds) ==
    {IF d._id = id THEN [d EXCEPT !.videos = videoIds] ELSE d : d \in playlists}

\* addVideoToPlaylist: validation and Video.findById
AddVideoStart(user, playlistId, videoId) ==
    /\ CanStart
    /\ LET r == [Idle EXCEPT !.op = "addVideoToPlaylist"] IN
       IF ~isValidObjectId(playlistId) \/ ~isValidObjectId(videoId)
       THEN /\ last' = Response(r, 400, Null)
            /\ UNCHANGED req
       ELSE IF user = Null
       THEN /\ last' = Response(r, 401, Null)
            /\ UNCHANGED req
       ELSE LET r2 == [r EXCEPT !.user = user, !.target = castObjectId(playlistId),
                                !.video = videoId]
            IN IF ~ \E d \in videos : d._id = castObjectId(videoId)
               THEN /\ last' = Response(r2, 404, Null)
                    /\ UNCHANGED req
               ELSE /\ req' = Enter([r2 EXCEPT !.pc = "findPlaylist"])
                    /\ UNCHANGED last
    /\ UNCHANGED <<likes, subscriptions, tweets, videos, comments, nextId,
                   serial, ntoggles, prev, playlists>>

\* Playlist.findOne({ _id, owner }) and the includes check
AddVideoFind(r) ==
    /\ Ready
    /\ r \in InFlight
    /\ r.op = "addVideoToPlaylist"
    /\ r.pc = "findPlaylist"
    /\ LET found == FindOwned(playlists, r.target, r.user) IN
       IF found = {}
       THEN /\ last' = Response(r, NotFoundStatus(playlists, r.target), Null)
            /\ req' = Leave(r)
       ELSE \E d \in found :
               IF Includes(d.videos, r.video)
               THEN /\ last' = Response(r, 200, Null)
                    /\ req' = Leave(r)
               ELSE /\ req' = Leave(r) (+) SetToBag({[r EXCEPT !.pc = "addToSet"]})
                    /\ UNCHANGED last
    /\ UNCHANGED <<likes, subscriptions, tweets, videos, comments, nextId,
                   serial, ntoggles, prev, playlists>>

\* Playlist.findByIdAndUpdate with $addToSet; if (!updatedPlaylist) throw 500.
\* The response tells in `conflict` whether the array held the id already.
AddVideoUpdate(r) ==
    /\ Ready
    /\ r \in InFlight
    /\ r.op = "addVideoToPlaylist"
    /\ r.pc = "addToSet"
    /\ IF \E d \in playlists : d._id = r.target
       THEN \E d \in playlists :
               /\ d._id = r.target
               /\ playlists' = UpdateById(r.target, AddToSet(d.videos, r.video))
               /\ last' = [Response(r, 200, Null) EXCEPT
                             !.conflict = (\E i \in 1..Len(d.videos) :
                                              d.videos[i] = castObjectId(r.video))]
       ELSE /\ last' = Response(r, 500, Null)
            /\ UNCHANGED playlists
    /\ req' = Leave(r)
    /\ UNCHANGED <<likes, subscriptions, tweets, videos, comments, nextId,
                   serial, ntoggles, prev>>

\* the parameters of the playlist handlers: the ids of the playlists and of
\* the videos, an id without a document, and a malformed string
PlaylistParams == ParamsOf(PlaylistIds \cup {GhostId})
VideoParams == ParamsOf(VideoIds \cup {GhostId})

addVideoToPlaylist ==
    \/ /\ CanStart
       /\ \E user \in Actors, playlistId \in PlaylistParams, videoId \in VideoParams :
             AddVideoStart(user, playlistId, videoId)
    \/ \E r \in InFlight : AddVideoFind(r)
    \/ \E r \in InFlight : AddVideoUpdate(r)

\* removeVideoFromPlaylist: validation, Playlist.findOne({ _id, owner })
\* and the includes check
RemoveVideoStart(user, playlistId, videoId) ==
    /\ CanStart
    /\ LET r == [Idle EXCEPT !.op = "removeVideoFromPlaylist"] IN
       IF ~isValidObjectId(playlistId) \/ ~isValidObjectId(videoId)
       THEN /\ last' = Response(r, 400, Null)
            /\ UNCHANGED req
       ELSE IF user = Null
       THEN /\ last' = Response(r, 401, Null)
            /\ UNCHANGED req
       ELSE LET r2 == [r EXCEPT !.user = user, !.target = castObjectId(playlistId),
                                !.video = videoId]
                found == FindOwned(playlists, r2.target, user)
            IN IF found = {}
               THEN /\ last' = Response(r2, NotFoundStatus(playlists, r2.target), Null)
                    /\ UNCHANGED req
               ELSE \E d \in found :
                       IF ~Includes(d.videos, videoId)
                       THEN /\ last' = Response(r2, 404, Null)
                            /\ UNCHANGED req
                       ELSE /\ req' = Enter([r2 EXCEPT !.pc = "pull"])
                            /\ UNCHANGED last
    /\ UNCHANGED <<likes, subscriptions, tweets, videos, comments, nextId,
                   serial, ntoggles, prev, playlists>>

\* Playlist.findByIdAndUpdate with $pull; if (!updatedPlaylist) throw 500
RemoveVideoUpdate(r) ==
    /\ Ready
    /\ r \in InFlight
    /\ r.op = "removeVideoFromPlaylist"
    /\ r.pc = "pull"
    /\ IF \E d \in playlists : d._id = r.target
       THEN \E d \in playlists :
               /\ d._id = r.target
               /\ playlists' = UpdateById(r.target, Pull(d.videos, r.video))
               /\ last' = Response(r, 200, Null)
       ELSE /\ last' = Response(r, 500, Null)
            /\ UNCHANGED playlists
    /\ req' = Leave(r)
    /\ UNCHANGED <<likes, subscriptions, tweets, videos, comments, nextId,
                   serial, ntoggles, prev>>

removeVideoFromPlaylist ==
    \/ /\ CanStart
       /\ \E user \in Actors, playlistId \in PlaylistParams, videoId \in VideoParams :
             RemoveVideoStart(user, playlistId, videoId)
    \/ \E r \in InFlight : RemoveVideoUpdate(r)

\* deletePlaylist: validation, Playlist.findOneAndDelete({ _id, owner }),
\* 404 or 200
DeletePlaylist(user, playlistId) ==
    /\ CanStart
    /\ LET r == [Idle EXCEPT !.op = "deletePlaylist"] IN
       IF ~isValidObjectId(playlistId)
       THEN /\ last' = Response(r, 400, Null)
            /\ UNCHANGED playlists
       ELSE IF user = Null
       THEN /\ last' = Response(r, 401, Null)
            /\ UNCHANGED playlists
       ELSE LET r2 == [r EXCEPT !.user = user, !.target = castObjectId(playlistId)]
                found == FindOwned(playlists, r2.target, user)
            IN IF found = {}
               THEN /\ last' = Response(r2, NotFoundStatus(playlists, r2.target), Null)
                    /\ UNCHANGED playlists
               ELSE /\ playlists' = playlists \ found
                    /\ last' = Response(r2, 200, Null)
    /\ UNCHANGED <<likes, subscriptions, tweets, videos, comments, nextId, req,
                   serial, ntoggles, prev>>

deletePlaylist ==
    /\ CanStart
    /\ \E user \in Actors, playlistId \in PlaylistParams :
          DeletePlaylist(user, playlistId)

\* updatePlaylist called with a name and nothing else: validation,
\* Playlist.findOneAndUpdate({ _id, owner }, { $set: { name: name.trim() } }),
\* 404 or 200
UpdatePlaylist(user, playlistId, name) ==
    /\ CanStart
    /\ LET r == [Idle EXCEPT !.op = "updatePlaylist"] IN
       IF ~isValidObjectId(playlistId) \/ Trim(name) = <<>>
       THEN /\ last' = Response(r, 400, Null)
            /\ UNCHANGED playlists
       ELSE IF user = Null
       THEN /\ last' = Response(r, 401, Null)
            /\ UNCHANGED playlists
       ELSE LET r2 == [r EXCEPT !.user = user, !.target = castObjectId(playlistId)]
                found == FindOwned(playlists, r2.target, user)
            IN IF found = {}
               THEN /\ last' = Response(r2, NotFoundStatus(playlists, r2.target), Null)
                    /\ UNCHANGED playlists
               ELSE /\ playlists' = SetName(playlists, r2.target, Trim(name))
                    /\ last' = Response(r2, 200, Null)
    /\ UNCHANGED <<likes, subscriptions, tweets, videos, comments, nextId, req,
                   serial, ntoggles, prev>>

updatePlaylist ==
    /\ CanStart
    /\ \E user \in Actors, playlistId \in PlaylistParams, name \in Contents :
          UpdatePlaylist(user, playlistId, name)

\* ---------------------------------------------------------------- views
\* { $project: { f: 1, ... } }: the named fields and _id
Project(d, fields) == [f \in fields \cup {"_id"} |-> d[f]]

\* the fields of a user document
UserFields == DOMAIN UserDoc("u1", <<>>)

\* what { $first: [] } leaves the field as: the view has no such field
Absent == [absent |-> TRUE]

\* a join that takes the first user of the collection, whoever it is
OwnerDetails_AnyUser(owner, fields) ==
    Project(CHOOSE d \in UserDocs : TRUE, fields)

\* { $lookup: { from: "users", localField: "owner", foreignField: "_id",
\*   as: "ownerDetails", pipeline: [{ $project: fields }] } } followed by
\* ownerDetails: { $first: "$ownerDetails" }.  A $lookup without a
\* pipeline hands on the whole documents (fields = UserFields).
OwnerDetails(owner, fields) ==
    LET joined == {Project(d, fields) : d \in {u \in UserDocs : u._id = owner}}
    IN IF joined = {} THEN Absent ELSE CHOOSE d \in joined : TRUE

\* the $lookup of the likes whose <kind> is the document's _id
LikesOf(kind, id) == {d \in likes : LikeTarget(d, kind) = id}

\* a test that takes a viewer who is not signed in for a match of any like
IsLiked_NullMatches(viewer, kind, id) ==
    \E d \in LikesOf(kind, id) : viewer \in {Null, d.likedBy}

\* isLiked: { $cond: { if: { $in: [req.user?._id, "$likes.likedBy"] },
\*   then: true, else: false } }; an undefined viewer is sent to the store
\* as null, which no likedBy equals
IsLiked(viewer, kind, id) == viewer \in {d.likedBy : d \in LikesOf(kind, id)}

\* the fields getUserTweets adds to a tweet
TweetView(d, viewer) ==
    [_id |-> d._id,
     ownerDetails |-> OwnerDetails(d.owner, {"username", "avatar"}),
     likesCount |-> Cardinality(LikesOf("tweet", d._id)),
     isLiked |-> IsLiked(viewer, "tweet", d._id)]

\* the fields getVideoComments adds to a comment
CommentView(d, viewer) ==
    [_id |-> d._id,
     ownerDetails |-> OwnerDetails(d.owner, {"username", "avatar"}),
     likesCount |-> Cardinality(LikesOf("comment", d._id)),
     isLiked |-> IsLiked(viewer, "comment", d._id)]

\* new mongoose.Types.ObjectId(req.user?._id): the id of the viewer, or a
\* newly generated id when nobody is signed in
FreshId == "fresh"
NewObjectId(viewer) == IF viewer = Null THEN FreshId ELSE viewer

\* the fields getAllVideos and getVideoById add to a video: their $lookup
\* of the owner has no pipeline and no $project follows
VideoView(d, viewer) ==
    [_id |-> d._id,
     ownerDetails |-> OwnerDetails(d.owner, UserFields),
     likesCount |-> Cardinality(LikesOf("video", d._id)),
     isOwner |-> d.owner = NewObjectId(viewer)]

\* a video as the nested pipelines of getPlaylistById, getLikedVideos and
\* getWatchHistory hand it on
VideoCard(d) ==
    [_id |-> d._id, createdAt |-> d.createdAt,
     ownerDetails |-> OwnerDetails(d.owner, {"username", "avatar"})]

\* ------------------------------------------------------ list operations
\* the response of a list operation
ListResponse(op, user, args, code, records, total) ==
    [NoResponse EXCEPT !.op = op, !.user = user, !.args = args, !.status = code,
                       !.records = records, !.total = total]

\* the orders { $sort: { [field]: order } } can hand the documents of coll
\* on in: every arrangement in which the field does not decrease (order = 1)
\* or does not increase (order = -1); documents with equal values come in
\* any order
Sort(coll, field, order) ==
    {s \in [1..Cardinality(coll) -> coll] :
        /\ \A i, j \in 1..Cardinality(coll) : i # j => s[i] # s[j]
        /\ \A i, j \in 1..Cardinality(coll) :
              i < j => order * s[i][field] <= order * s[j][field]}

\* { $skip: n }
Skip(s, n) == SubSeq(s, n + 1, Len(s))

\* { $limit: n }
Limit(s, n) == SubSeq(s, 1, IF n < Len(s) THEN n ELSE Len(s))

\* a match stage that lets every viewer who names an owner see all of
\* that owner's videos
OnlyPublished_AnyViewer(user, userId) == userId = NoParam

\* matchStage.isPublished = true unless userId is given and
\* req.user?._id && req.user._id.toString() === userId
OnlyPublished(user, userId) ==
    IF userId # NoParam
    THEN ~(user # Null /\ toString(user) = userId)
    ELSE TRUE

\* the $match stage of getAllVideos
MatchVideos(user, args) ==
    {d \in videos :
        /\ args.userId # NoParam => d.owner = castObjectId(args.userId)
        /\ OnlyPublished(user, args.userId) => d.isPublished
        /\ args.query # <<>> => \/ RegexMatch(d.title, args.query)
                                \/ RegexMatch(d.description, args.query)}

\* validSortFields.includes(sortBy) ? sortBy : "createdAt"
SortField(sortBy) ==
    IF sortBy \in {"createdAt", "views", "duration"} THEN sortBy ELSE "createdAt"
\* sortType === "desc" ? -1 : 1
SortOrder(sortType) == IF sortType = "desc" THEN 0 - 1 ELSE 1

\* the values of req.query getAllVideos is called with
VideoArgs ==
    [userId : {NoParam, BadParam} \cup {h \in HexStrings : h.hex \in Users},
     query : Queries,
     sortBy : {"createdAt", "views", "bogus"},
     sortType : {"desc", "asc"},
     page : PageValues,
     limit : LimitValues]

\* getAllVideos: validation of page and limit and of userId, then one
\* Video.aggregate of $match, $sort, $skip and $limit
GetAllVideos(user, args) ==
    /\ CanStart
    /\ LET pageNumber == parseInt(Default(args.page, <<"1">>))
           limitNumber == parseInt(Default(args.limit, <<"1", "0">>))
           field == SortField(args.sortBy)
       IN IF IsBadNumber(pageNumber) \/ IsBadNumber(limitNumber)
          THEN last' = ListResponse("getAllVideos", user, args, 400, <<>>, 0)
          ELSE IF args.userId # NoParam /\ ~isValidObjectId(args.userId)
          THEN last' = ListResponse("getAllVideos", user, args, 400, <<>>, 0)
          ELSE \E sorted \in Sort(MatchVideos(user, args), field,
                                  SortOrder(args.sortType)) :
                  LET page == Limit(Skip(sorted,
                                         (pageNumber.val - 1) * limitNumber.val),
                                    limitNumber.val)
                  IN last' = [ListResponse("getAllVideos", user, args, 200,
                                           page, 0)
                              EXCEPT !.views = [i \in 1..Len(page) |->
                                                  VideoView(page[i], user)]]
    /\ UNCHANGED <<likes, subscriptions, tweets, videos, comments, nextId, req,
                   serial, playlists, ntoggles, prev>>

getAllVideos ==
    /\ CanStart
    /\ \E user \in Actors, args \in VideoArgs : GetAllVideos(user, args)

\* the values of req.query getVideoComments and getChannelVideos read
PageArgs == [userId : {NoParam}, query : {<<>>}, sortBy : {""}, sortType : {""},
             page : PageValues, limit : LimitValues]

\* Comment.countDocuments({ video: videoId })
CountComments(videoId) ==
    Cardinality({d \in comments : d.video = castObjectId(videoId)})

\* getVideoComments: validation of videoId and of page and limit,
\* Comment.aggregate of $match, $sort (newest first), $skip and $limit, and
\* Comment.countDocuments.  No step of the list operations writes, so the
\* two reads are taken as one step.
GetVideoComments(user, videoId, args) ==
    /\ CanStart
    /\ LET pageNumber == parseInt(Default(args.page, <<"1">>))
           limitNumber == parseInt(Default(args.limit, <<"1", "0">>))
           bad == ListResponse("getVideoComments", user, args, 400, <<>>, 0)
       IN IF ~isValidObjectId(videoId)
          THEN last' = bad
          ELSE IF IsBadNumber(pageNumber) \/ IsBadNumber(limitNumber)
          THEN last' = [bad EXCEPT !.target = castObjectId(videoId)]
          ELSE \E sorted \in Sort({d \in comments :
                                      d.video = castObjectId(videoId)},
                                  "createdAt", 0 - 1) :
                  LET page == Limit(Skip(sorted,
                                         (pageNumber.val - 1) * limitNumber.val),
                                    limitNumber.val)
                  IN last' = [ListResponse("getVideoComments", user, args, 200,
                                           page, CountComments(videoId))
                              EXCEPT !.target = castObjectId(videoId),
                                     !.views = [i \in 1..Len(page) |->
                                                  CommentView(page[i], user)]]
    /\ UNCHANGED <<likes, subscriptions, tweets, videos, comments, nextId, req,
                   serial, playlists, ntoggles, prev>>

getVideoComments ==
    /\ CanStart
    /\ \E user \in Actors, videoId \in ParamsOf(ListVideoIds), args \in PageArgs :
          GetVideoComments(user, videoId, args)

\* const channelStats = stats[0] || {...}: getChannelVideos declares no
\* `stats`, nor does its module, so the read throws a ReferenceError and
\* the handler ends with an error instead of its response
ChannelVideosStatus == 500

\* getChannelVideos: the check of req.user, validation of page and limit,
\* Video.aggregate, Video.countDocuments, and the read of `stats` that
\* throws before the response is built
GetChannelVideos(user, args) ==
    /\ CanStart
    /\ LET pageNumber == parseInt(Default(args.page, <<"1">>))
           limitNumber == parseInt(Default(args.limit, <<"1", "0">>))
       IN IF user = Null
          THEN last' = ListResponse("getChannelVideos", user, args, 401, <<>>, 0)
          ELSE IF IsBadNumber(pageNumber) \/ IsBadNumber(limitNumber)
          THEN last' = ListResponse("getChannelVideos", user, args, 400, <<>>, 0)
          ELSE last' = ListResponse("getChannelVideos", user, args,
                                    ChannelVideosStatus, <<>>, 0)
    /\ UNCHANGED <<likes, subscriptions, tweets, videos, comments, nextId, req,
                   serial, playlists, ntoggles, prev>>

getChannelVideos ==
    /\ CanStart
    /\ \E user \in Actors, args \in PageArgs : GetChannelVideos(user, args)

\* the response reaches the client
Deliver ==
    /\ ~Ready
    /\ last' = NoResponse
    /\ prev' = IF serial THEN last ELSE prev
    /\ UNCHANGED <<likes, subscriptions, tweets, videos, comments, nextId, req,
                   serial, playlists, ntoggles>>

\* the clients stop overlapping their requests: no request is in flight,
\* and from here on each request completes before the next starts
Quiesce ==
    /\ ~serial
    /\ Ready
    /\ req = EmptyBag
    /\ serial' = TRUE
    /\ UNCHANGED <<likes, subscriptions, tweets, videos, comments, nextId, req,
                   last, prev, playlists, ntoggles>>

\* ---------------------------------------------------------------- reads
\* the response of a read: the viewer, the id asked for, the status, the
\* documents and their views
ReadResponse(op, viewer, target, code, records, views) ==
    [NoResponse EXCEPT !.op = op, !.user = viewer, !.target = target,
                       !.status = code, !.records = records, !.views = views]

\* the arrangements of the documents of coll
Orders(coll) ==
    {s \in [1..Cardinality(coll) -> coll] :
        \A i, j \in 1..Cardinality(coll) : i # j => s[i] # s[j]}

\* getUserTweets: validation of userId and one Tweet.aggregate.  The
\* tweets of the model carry no createdAt, so the $sort hands them on in
\* any order.
GetUserTweets(viewer, userId) ==
    /\ CanStart
    /\ IF ~isValidObjectId(userId)
       THEN last' = ReadResponse("getUserTweets", viewer, Null, 400, <<>>, <<>>)
       ELSE \E s \in Orders({d \in tweets : d.owner = castObjectId(userId)}) :
               last' = ReadResponse("getUserTweets", viewer,
                          castObjectId(userId), 200, s,
                          [i \in 1..Len(s) |-> TweetView(s[i], viewer)])
    /\ UNCHANGED <<likes, subscriptions, tweets, videos, comments, nextId, req,
                   serial, playlists, ntoggles, prev>>

getUserTweets ==
    /\ CanStart
    /\ \E viewer \in Actors, userId \in ParamsOf(Users \cup {GhostUser}) :
          GetUserTweets(viewer, userId)

\* a match stage that lets every viewer see every video
CanSee_Everyone(d, viewer) == TRUE

\* $match: { $or: [{ isPublished: true }, { isOwner: true }] }
CanSee(d, viewer) == d.isPublished \/ d.owner = NewObjectId(viewer)

\* getVideoById: validation of videoId, one Video.aggregate, 404 when it
\* is empty
GetVideoById(viewer, videoId) ==
    /\ CanStart
    /\ IF ~isValidObjectId(videoId)
       THEN last' = ReadResponse("getVideoById", viewer, Null, 400, <<>>, <<>>)
       ELSE LET id == castObjectId(videoId)
                video == {d \in videos : d._id = id /\ CanSee(d, viewer)}
            IN IF video = {}
               THEN last' = ReadResponse("getVideoById", viewer, id, 404,
                                         <<>>, <<>>)
               ELSE \E d \in video :
                       last' = ReadResponse("getVideoById", viewer, id, 200,
                                            <<d>>, <<VideoView(d, viewer)>>)
    /\ UNCHANGED <<likes, subscriptions, tweets, videos, comments, nextId, req,
                   serial, playlists, ntoggles, prev>>

getVideoById ==
    /\ CanStart
    /\ \E viewer \in Actors, videoId \in ParamsOf({"v1", "v2", GhostId}) :
          GetVideoById(viewer, videoId)

\* the fields getPlaylistById adds to a playlist: the owner, and the
\* videos whose _id is in the playlist's array, each with its owner
PlaylistView(d) ==
    [_id |-> d._id,
     ownerDetails |-> OwnerDetails(d.owner, {"username", "fullName", "avatar"}),
     videos |-> {VideoCard(v) : v \in {x \in videos :
                     \E i \in 1..Len(d.videos) : d.videos[i] = x._id}}]

\* getPlaylistById: validation of playlistId, one Playlist.aggregate, 404
\* when it is empty
GetPlaylistById(viewer, playlistId) ==
    /\ CanStart
    /\ IF ~isValidObjectId(playlistId)
       THEN last' = ReadResponse("getPlaylistById", viewer, Null, 400, <<>>, <<>>)
       ELSE LET id == castObjectId(playlistId)
                playlist == {d \in playlists : d._id = id}
            IN IF playlist = {}
               THEN last' = ReadResponse("getPlaylistById", viewer, id, 404,
                                         <<>>, <<>>)
               ELSE \E d \in playlist :
                       last' = ReadResponse("getPlaylistById", viewer, id, 200,
                                            <<d>>, <<PlaylistView(d)>>)
    /\ UNCHANGED <<likes, subscriptions, tweets, videos, comments, nextId, req,
                   serial, playlists, ntoggles, prev>>

getPlaylistById ==
    /\ CanStart
    /\ \E viewer \in Actors, playlistId \in PlaylistParams :
          GetPlaylistById(viewer, playlistId)

\* getLikedVideos: the check of req.user and one Like.aggregate: the
\* viewer's likes of videos, each replaced by its video (likes whose video
\* is gone are dropped), newest video first
GetLikedVideos(viewer) ==
    /\ CanStart
    /\ IF viewer = Null
       THEN last' = ReadResponse("getLikedVideos", viewer, Null, 401, <<>>, <<>>)
       ELSE LET joined == {[like |-> p[1]._id, createdAt |-> p[2].createdAt,
                            video |-> p[2]] :
                              p \in {q \in likes \X videos :
                                        /\ q[1].likedBy = viewer
                                        /\ q[1].video = q[2]._id}}
            IN \E s \in Sort(joined, "createdAt", 0 - 1) :
                  last' = ReadResponse("getLikedVideos", viewer, Null, 200,
                             [i \in 1..Len(s) |-> s[i].video],
                             [i \in 1..Len(s) |-> VideoCard(s[i].video)])
    /\ UNCHANGED <<likes, subscriptions, tweets, videos, comments, nextId, req,
                   serial, playlists, ntoggles, prev>>

getLikedVideos ==
    /\ CanStart
    /\ \E viewer \in Actors : GetLikedVideos(viewer)

\* getWatchHistory: the check of req.user and one User.aggregate: the
\* published videos whose _id is in the viewer's watchHistory, newest first
GetWatchHistory(viewer) ==
    /\ CanStart
    /\ IF viewer = Null
       THEN last' = ReadResponse("getWatchHistory", viewer, Null, 401, <<>>, <<>>)
       ELSE LET watched == {v \in videos :
                              /\ v.isPublished
                              /\ \E u \in UserDocs :
                                    /\ u._id = viewer
                                    /\ \E i \in 1..Len(u.watchHistory) :
                                          u.watchHistory[i] = v._id}
            IN \E s \in Sort(watched, "createdAt", 0 - 1) :
                  last' = ReadResponse("getWatchHistory", viewer, Null, 200, s,
                             [i \in 1..Len(s) |-> VideoCard(s[i])])
    /\ UNCHANGED <<likes, subscriptions, tweets, videos, comments, nextId, req,
                   serial, playlists, ntoggles, prev>>

getWatchHistory ==
    /\ CanStart
    /\ \E viewer \in Actors : GetWatchHistory(viewer)

\* the fields getUserChannelProfile answers with: the projected fields of
\* the user, the counts and the viewer's flag
ChannelView(d, viewer) ==
    [_id |-> d._id,
     profile |-> Project(d, {"fullName", "username", "avatar"}),
     subscribersCount |-> subscribersCount(d._id),
     isSubscribed |->
        viewer \in {e.subscriber : e \in {x \in subscriptions :
                                             x.channel = d._id}}]

\* the names a channel profile is asked for
UserNames == {<<"a">>, <<"A">>, <<"t">>, <<"x">>, <<" ">>}

\* getUserChannelProfile: 400 for a blank username, one User.aggregate
\* that matches username.toLowerCase(), 404 when it is empty
GetUserChannelProfile(viewer, username) ==
    /\ CanStart
    /\ IF Trim(username) = <<>>
       THEN last' = ReadResponse("getUserChannelProfile", viewer, Null, 400,
                                 <<>>, <<>>)
       ELSE LET channel == {d \in UserDocs : d.username = LowerText(username)}
            IN IF channel = {}
               THEN last' = ReadResponse("getUserChannelProfile", viewer, Null,
                                         404, <<>>, <<>>)
               ELSE \E d \in channel :
                       last' = ReadResponse("getUserChannelProfile", viewer,
                                  d._id, 200, <<>>, <<ChannelView(d, viewer)>>)
    /\ UNCHANGED <<likes, subscriptions, tweets, videos, comments, nextId, req,
                   serial, playlists, ntoggles, prev>>

getUserChannelProfile ==
    /\ CanStart
    /\ \E viewer \in Actors, username \in UserNames :
          GetUserChannelProfile(viewer, username)

\* ------------------------------------------------------- specifications
Next ==
    \/ toggleVideoLike
    \/ toggleCommentLike
    \/ toggleTweetLike
    \/ toggleSubscription
    \/ deleteTweet
    \/ deleteVideo
    \/ deleteComment
    \/ Deliver

\* the toggle handlers alone
NextToggle ==
    \/ toggleVideoLike
    \/ toggleCommentLike
    \/ toggleTweetLike
    \/ toggleSubscription
    \/ Deliver

SpecToggle == Init /\ [][NextToggle]_vars

\* the handlers served concurrently
Spec == Init /\ [][Next]_vars

\* the toggle handlers served one request at a time
SpecSeq == InitSeq /\ [][NextToggle]_vars

\* the tweet likes and the deletion of the tweet with its cascade
NextTweet ==
    \/ toggleTweetLike
    \/ deleteTweet
    \/ Deliver

SpecTweet == Init /\ [][NextTweet]_vars

\* the video and comment likes and the deletion of the video or comment
NextOrphan ==
    \/ toggleVideoLike
    \/ toggleCommentLike
    \/ deleteVideo
    \/ deleteComment
    \/ Deliver

SpecOrphan == Init /\ [][NextOrphan]_vars

\* the owner-scoped updates and deletions served concurrently
NextOwner ==
    \/ updateTweet
    \/ deleteTweet
    \/ updateComment
    \/ deleteComment
    \/ updateVideo
    \/ togglePublishStatus
    \/ deleteVideo
    \/ updatePlaylist
    \/ deletePlaylist
    \/ Deliver

SpecOwner == Init /\ [][NextOwner]_vars

\* the reads
NextView ==
    \/ getUserTweets
    \/ getVideoComments
    \/ getVideoById
    \/ getPlaylistById
    \/ getLikedVideos
    \/ getWatchHistory
    \/ getUserChannelProfile
    \/ Deliver

SpecView == InitView /\ [][NextView]_vars

\* the tweet likes and the read of the tweets: requests that overlap,
\* followed by requests that come one at a time
NextLikeRead ==
    \/ toggleTweetLike
    \/ getUserTweets
    \/ Quiesce
    \/ Deliver

SpecLikeRead == Init /\ [][NextLikeRead]_vars

\* the video likes and the subscriptions: requests that overlap, followed
\* by requests that come one at a time
NextSettle ==
    \/ toggleVideoLike
    \/ toggleSubscription
    \/ Quiesce
    \/ Deliver

SpecSettle == Init /\ [][NextSettle]_vars

\* deleteTweet on a store that holds likes of a tweet, of a video and of
\* a comment, and a subscription
NextFrame ==
    \/ deleteTweet
    \/ Deliver

SpecFrame == InitView /\ [][NextFrame]_vars

\* the publish toggle and the edit of a video served concurrently
NextPublish ==
    \/ togglePublishStatus
    \/ updateVideo
    \/ Deliver

SpecPublish == Init /\ [][NextPublish]_vars

\* the playlist handlers served concurrently
NextPlaylist ==
    \/ addVideoToPlaylist
    \/ removeVideoFromPlaylist
    \/ updatePlaylist
    \/ deletePlaylist
    \/ Deliver

SpecPlaylist == Init /\ [][NextPlaylist]_vars

\* the playlist handlers served one request at a time
SpecPlaylistSeq == InitSeq /\ [][NextPlaylist]_vars

\* the list operations on a store of several videos and comments
NextList ==
    \/ getAllVideos
    \/ getVideoComments
    \/ getChannelVideos
    \/ Deliver

SpecList == InitList /\ [][NextList]_vars

\* ---------------------------------------------------------------- claims
ToggleOps == {"toggleVideoLike", "toggleCommentLike", "toggleTweetLike",
              "toggleSubscription"}

\* the documents of the store that are edges for the key k
EdgesOf(k) ==
    CASE k[1] = "video" ->
           {d \in likes : d.video = k[3] /\ d.likedBy = k[2]}
      [] k[1] = "comment" ->
           {d \in likes : d.comment = k[3] /\ d.likedBy = k[2]}
      [] k[1] = "tweet" ->
           {d \in likes : d.tweet = k[3] /\ d.likedBy = k[2]}
      [] k[1] = "subscription" ->
           {d \in subscriptions : d.channel = k[3] /\ d.subscriber = k[2]}

\* the key of a Like or Subscription document
KeyOfLike(d) ==
    IF d.video # Null THEN <<"video", d.likedBy, d.video>>
    ELSE IF d.comment # Null THEN <<"comment", d.likedBy, d.comment>>
    ELSE <<"tweet", d.likedBy, d.tweet>>
KeyOfSubscription(d) == <<"subscription", d.subscriber, d.channel>>

\* the key a toggle handler works on
KeyOfCall(r) ==
    CASE r.op = "toggleVideoLike" -> <<"video", r.user, r.target>>
      [] r.op = "toggleCommentLike" -> <<"comment", r.user, r.target>>
      [] r.op = "toggleTweetLike" -> <<"tweet", r.user, r.target>>
      [] r.op = "toggleSubscription" -> <<"subscription", r.user, r.target>>

NoneInFlight == req = EmptyBag

\* C1: no two Like edges share (likedBy, target, kind) and no two
\* Subscription edges share (subscriber, channel), whatever the
\* interleaving of concurrent toggle calls.
C1_AtMostOneEdge == \A k \in EdgeKeys : Cardinality(EdgesOf(k)) <= 1

\* C2: starting without an edge for the pair, after N successful toggle
\* calls for the pair, each completed before the next starts, the edge
\* exists iff N is odd.
C2_EdgeIffOdd ==
    \A k \in EdgeKeys : (EdgesOf(k) # {}) <=> (ntoggles[k] % 2 = 1)

C2_Witness ==
    \E k \in EdgeKeys : ntoggles[k] = 3 /\ EdgesOf(k) # {} /\ NoneInFlight

\* C3: a toggle call that observed the edge present and attempted the
\* delete while a concurrent call of the same actor on the same target did
\* the same completes without a failure response, and the edge is absent.
C3_SecondDeleteBenign ==
    (last.op \in ToggleOps /\ last.existing # NoDoc)
       => /\ last.status = 200
          /\ \A d \in likes \cup subscriptions : d._id # last.existing

\* C4: a create that the store rejected while an edge for the same pair
\* exists is not surfaced as an error: the call answers with a success
\* status.
C4_ConflictRecovered ==
    (last.op \in ToggleOps /\ last.conflict) => last.status \in {200, 201}

\* C5: toggleSubscription on the caller's own channel answers 400, and no
\* Subscription edge has subscriber = channel.
C5_NoSelfSubscription ==
    /\ (last.op = "toggleSubscription" /\ last.user # Null
          /\ last.target = last.user) => last.status = 400
    /\ \A d \in subscriptions : d.subscriber # d.channel

\* C6: a step of a toggle call by actor A on target T changes no edge other
\* than edges of (A, T), and the edge its lookup hands to the delete is an
\* edge of (A, T).
C6_ToggleFrame ==
    [][/\ \A r \in InFlight :
             (r.op \in ToggleOps /\ req' = Leave(r))
                => \A k \in EdgeKeys :
                      k # KeyOfCall(r) => EdgesOf(k)' = EdgesOf(k)
       /\ \A r \in BagToSet(req') :
             (r.op \in ToggleOps /\ r.pc = "delete" /\ req' = Enter(r))
                => \E d \in EdgesOf(KeyOfCall(r)) : d._id = r.existing
      ]_vars

\* two actors hold an edge to the same target and one of them has just
\* toggled his edge away
C6_Witness ==
    /\ last.op = "toggleCommentLike" /\ last.status = 200 /\ last.user = "u1"
    /\ \E d \in likes : d.comment = last.target /\ d.likedBy = "u2"

\* C7: two consecutive successful toggleSubscription calls by u1 on u2
\* (u1 # u2) leave the edge absent if it was absent before, and the
\* subscribersCount of u2 as it was before the two calls.
C7_DoubleToggleRestores ==
    [][\A u \in Users, c \in Users :
          ( /\ u # c
            /\ prev.op = "toggleSubscription" /\ prev.status \in {200, 201}
            /\ prev.user = u /\ prev.target = c
            /\ last = NoResponse
            /\ last'.op = "toggleSubscription" /\ last'.status \in {200, 201}
            /\ last'.user = u /\ last'.target = c )
          => /\ subscribersCount(c)' = prev.countBefore
             /\ prev.status = 201
                   => ~ \E d \in subscriptions' :
                           d.subscriber = u /\ d.channel = c
      ]_vars

\* u1 has subscribed to u2 and unsubscribed again
C7_Witness ==
    /\ prev.op = "toggleSubscription" /\ prev.status = 201
    /\ prev.user = "u1" /\ prev.target = "u2"
    /\ last.op = "toggleSubscription" /\ last.status = 200
    /\ last.user = "u1" /\ last.target = "u2"

\* C8: when deleteTweet has answered and its cascade succeeded, no Like
\* edge of the deleted tweet is in the store.
C8_CascadeRemovesLikes ==
    (last.op = "deleteTweet" /\ last.status = 200 /\ ~last.cascadeFailed)
       => \A d \in likes : d.tweet # last.target

\* the deleted tweet had Like edges from several users
C8_Witness ==
    /\ last.op = "deleteTweet" /\ last.status = 200 /\ ~last.cascadeFailed
    /\ last.deletedCount = 2

\* C9: when the cascade of deleteTweet fails, the tweet is deleted all the
\* same and the caller receives the success response.
C9_CascadeFailureSwallowed ==
    (last.op = "deleteTweet" /\ last.cascadeFailed)
       => /\ last.status = 200
          /\ \A t \in tweets : t._id # last.target

\* the cascade failed and left the tweet's Like edges behind
C9_Witness ==
    /\ last.op = "deleteTweet" /\ last.cascadeFailed
    /\ \E d \in likes : d.tweet = last.target

\* C10: deleting a video or a comment leaves the Like collection unchanged.
C10_DeleteKeepsLikes ==
    [][(videos' # videos \/ comments' # comments) => likes' = likes]_vars

\* a video was deleted and a Like edge on it is still in the store
C10_Witness ==
    /\ last.op = "deleteVideo" /\ last.status = 200
    /\ \E d \in likes : d.video = last.target

\* C11: a video with isPublished = false is never among the records that
\* getAllVideos returns to a viewer who is not its owner (an anonymous
\* viewer included), whatever the userId, query, sort, page and limit.
C11_UnpublishedHidden ==
    (last.op = "getAllVideos" /\ last.status = 200)
       => \A i \in 1..Len(last.records) :
             last.records[i].isPublished \/ last.records[i].owner = last.user

\* u1 lists his own channel and receives his unpublished video
C11_Witness ==
    /\ last.op = "getAllVideos" /\ last.status = 200 /\ last.user = "u1"
    /\ \E i \in 1..Len(last.records) : ~last.records[i].isPublished
    /\ \E d \in videos : ~d.isPublished /\ d.owner = "u2"

\* the requests of C12: no userId, no search query, and a window that
\* holds every video
EmptyFilter(args) ==
    /\ args.userId = NoParam /\ args.query = <<>>
    /\ args.page = NotGiven /\ args.limit = NotGiven

\* C12: getAllVideos called by an authenticated viewer with an empty
\* filter and a window that holds all matches returns the viewer's own
\* unpublished videos.
C12_OwnerSeesUnpublished ==
    (last.op = "getAllVideos" /\ last.status = 200 /\ last.user # Null
       /\ EmptyFilter(last.args))
       => \A d \in videos :
             (d.owner = last.user /\ ~d.isPublished)
                => \E i \in 1..Len(last.records) : last.records[i]._id = d._id

ListOps == {"getAllVideos", "getVideoComments", "getChannelVideos"}

\* a page or limit as the contract wants it: a string of digits that
\* writes a number of at least 1
IsPositiveInteger(text) ==
    /\ text # <<>>
    /\ \A i \in 1..Len(text) : text[i] \in Digits
    /\ NumberOf(text) >= 1

\* the page and the limit of a request, each a positive integer or left
\* to its default
ValidWindow(args) ==
    /\ args.page.given => IsPositiveInteger(args.page.text)
    /\ args.limit.given => IsPositiveInteger(args.limit.text)

\* the entities that match the base filter of a list operation that
\* reports a total
BaseMatches(r) ==
    CASE r.op = "getVideoComments" -> {d \in comments : d.video = r.target}
      [] r.op = "getChannelVideos" -> {d \in videos : d.owner = r.user}

\* C13: getVideoComments and getChannelVideos, called with a valid
\* (page, limit) against an unchanged store, report the number of entities
\* that match the base filter as the total, whatever the page and limit.
C13_TotalInvariant ==
    ( /\ last.op \in {"getVideoComments", "getChannelVideos"}
      /\ last.target # Null \/ last.op = "getChannelVideos"
      /\ last.op = "getChannelVideos" => last.user # Null
      /\ ValidWindow(last.args) )
       => /\ last.status = 200
          /\ last.total = Cardinality(BaseMatches(last))

\* the page and the limit the handler works with
PageOf(args) == parseInt(Default(args.page, <<"1">>)).val
LimitOf(args) == parseInt(Default(args.limit, <<"1", "0">>)).val

\* the filtered, sorted results a list request can be answered from
SortedResults(r) ==
    CASE r.op = "getAllVideos" ->
           Sort(MatchVideos(r.user, r.args), SortField(r.args.sortBy),
                SortOrder(r.args.sortType))
      [] r.op = "getVideoComments" ->
           Sort({d \in comments : d.video = r.target}, "createdAt", 0 - 1)
      [] r.op = "getChannelVideos" ->
           Sort({d \in videos : d.owner = r.user}, "createdAt", 0 - 1)

\* the entries of s at the positions (page-1)*limit .. page*limit-1,
\* counted from 0
Window(s, page, limit) ==
    LET first == (page - 1) * limit
        n == IF Len(s) - first < 0 THEN 0
             ELSE IF Len(s) - first < limit THEN Len(s) - first ELSE limit
    IN [i \in 1..n |-> s[first + i]]

\* C14: a list operation that accepted its (page, limit) returns at most
\* limit records, and they are the entries at the positions
\* (page-1)*limit .. page*limit-1 of the filtered, sorted result.
C14_WindowExact ==
    (last.op \in ListOps /\ last.status \notin {0, 400, 401})
       => /\ last.status = 200
          /\ Len(last.records) <= LimitOf(last.args)
          /\ \E s \in SortedResults(last) :
                last.records = Window(s, PageOf(last.args), LimitOf(last.args))

\* C15: a list operation answers a page or limit that is not a positive
\* integer with 400; it never goes on with a value made out of it.
C15_RejectsBadWindow ==
    ( /\ last.op \in ListOps
      /\ last.op = "getChannelVideos" => last.user # Null
      /\ ~ValidWindow(last.args) )
       => last.status = 400

\* how often the id v occurs in the array videoIds
Occurrences(videoIds, v) ==
    Cardinality({i \in 1..Len(videoIds) : videoIds[i] = v})

C17_NoDuplicateVideo ==
    \A d \in playlists : \A v \in VideoIds : Occurrences(d.videos, v) <= 1

\* two overlapping calls both read the playlist without the video; the
\* second write met the id of the first
C17_Witness ==
    /\ last.op = "addVideoToPlaylist" /\ last.status = 200 /\ last.conflict
    /\ last.video = toString(castObjectId(last.video))

\* C18: removeVideoFromPlaylist by the owner of the playlist for a video
\* that is not in it succeeds and leaves the playlist as it is.
C18_RemoveAbsentNoop ==
    ( /\ last.op = "removeVideoFromPlaylist"
      /\ last.status \notin {400, 401}
      /\ \E d \in playlists :
            /\ d._id = last.target /\ d.owner = last.user
            /\ Occurrences(d.videos, castObjectId(last.video)) = 0 )
       => last.status = 200

\* the collection an owner-scoped update or deletion works on
CollOf(op) ==
    CASE op \in {"updateTweet", "deleteTweet"} -> tweets
      [] op \in {"updateComment", "deleteComment"} -> comments
      [] op \in {"updateVideo", "togglePublishStatus", "deleteVideo"} -> videos
      [] op \in {"updatePlaylist", "deletePlaylist"} -> playlists
      [] OTHER -> {}

\* the owner-scoped updates and deletions
OwnerOps == {"updateTweet", "deleteTweet", "updateComment", "deleteComment",
             "updateVideo", "togglePublishStatus", "deleteVideo",
             "updatePlaylist", "deletePlaylist"}

\* the collection holds a document with this id that belongs to another user
NonOwner(coll, id, user) == \E d \in coll : d._id = id /\ d.owner # user

\* the step is taken for a request of the user: the request is answered,
\* or goes on to its second step
ActsAs(user) ==
    \/ last = NoResponse /\ last' # NoResponse /\ last'.user = user
    \/ \E r \in BagToSet(req') : req' = Enter(r) /\ r.user = user

\* C19: an update or deletion of a tweet, comment or video by a user who is
\* not its owner fails and leaves the entity as it was: every step that
\* changes or removes a document is taken for the document's owner, and a
\* request that names a document of another user is answered with a failure.
C19_NonOwnerCannotMutate ==
    [][ /\ \A d \in tweets \ tweets' : ActsAs(d.owner)
        /\ \A d \in comments \ comments' : ActsAs(d.owner)
        /\ \A d \in videos \ videos' : ActsAs(d.owner)
        /\ \A r \in BagToSet(req') :
              req' = Enter(r) => ~NonOwner(CollOf(r.op), r.target, r.user)
        /\ ( /\ last = NoResponse /\ last' # NoResponse /\ req' = req
             /\ last'.op \in OwnerOps \ {"updatePlaylist", "deletePlaylist"}
             /\ NonOwner(CollOf(last'.op), last'.target, last'.user) )
            => /\ last'.status >= 400
               /\ UNCHANGED <<tweets, comments, videos>>
      ]_vars

\* a user asked to update a tweet that exists and belongs to another user
C19_Witness ==
    /\ last.op = "updateTweet"
    /\ last.user # Null
    /\ last.status >= 400
    /\ NonOwner(tweets, last.target, last.user)

\* C20: an owner-scoped update or deletion of a tweet, comment, video or
\* playlist that passed validation and authentication answers 404 both when
\* no document has the id and when the document belongs to another user,
\* and never answers 403.
C20_NotFoundIndistinguishable ==
    [][ ( /\ last = NoResponse /\ last' # NoResponse /\ req' = req
          /\ last'.op \in OwnerOps
          /\ last'.status \notin {400, 401} )
         => /\ last'.status # 403
            /\ FindOwned(CollOf(last'.op), last'.target, last'.user) = {}
                  => last'.status = 404
      ]_vars

\* a user asked to update a playlist that exists and belongs to another
\* user, and was told what a request for an unknown id is told
C20_Witness ==
    /\ last.op = "updatePlaylist"
    /\ last.status = NotFoundStatus(playlists, GhostId)
    /\ NonOwner(playlists, last.target, last.user)

\* the document of coll with the id
DocOf(coll, id) == CHOOSE d \in coll : d._id = id

\* the collection the records of a read come from
ReadColl(op) ==
    CASE op = "getUserTweets" -> tweets
      [] op = "getVideoComments" -> comments
      [] op = "getPlaylistById" -> playlists
      [] OTHER -> videos

\* the reads that answer with views that hold ownerDetails
OwnerViewOps == {"getUserTweets", "getVideoComments", "getVideoById",
                 "getAllVideos", "getPlaylistById", "getLikedVideos",
                 "getWatchHistory"}

\* ownerDetails is the record of the user whose _id is owner, and is absent
\* when there is none
IsOwnerOf(details, owner) ==
    IF \E u \in UserDocs : u._id = owner
    THEN /\ details # Absent
         /\ details._id = owner
         /\ \A u \in UserDocs : \A f \in DOMAIN details :
               u._id = owner => details[f] = u[f]
    ELSE details = Absent

\* C21: in every view of a tweet, comment, video, playlist, liked video or
\* watch-history video, ownerDetails is the record of the one user whose
\* _id is the entity's owner, or is absent when no such user exists, and
\* the view is returned all the same; the videos nested in a playlist
\* view carry the details of their own owners.
C21_OwnerDetailsOfOwner ==
    (last.op \in OwnerViewOps /\ last.status = 200) =>
        \A i \in 1..Len(last.views) :
           /\ IsOwnerOf(last.views[i].ownerDetails,
                        DocOf(ReadColl(last.op), last.views[i]._id).owner)
           /\ last.op = "getPlaylistById" =>
                 \A c \in last.views[i].videos :
                    IsOwnerOf(c.ownerDetails, DocOf(videos, c._id).owner)

\* a playlist whose owner has no user document is returned, with videos of
\* an owner who has one and of an owner who has none
C21_Witness ==
    /\ last.op = "getPlaylistById" /\ last.status = 200
    /\ last.views[1].ownerDetails = Absent
    /\ \E c \in last.views[1].videos : c.ownerDetails # Absent
    /\ \E c \in last.views[1].videos : c.ownerDetails = Absent

\* a record of a user that holds neither the password nor the refresh token
IsPublicSafe(details) == DOMAIN details \cap {"password", "refreshToken"} = {}

\* C22: in every view a read answers with, ownerDetails and every other
\* joined record of a user (the owners of the videos nested in a playlist,
\* the profile of a channel) hold only projected public fields, never the
\* user's password or refreshToken.
C22_NoSecretFields ==
    last.status = 200 =>
        \A i \in 1..Len(last.views) :
           /\ last.op \in OwnerViewOps => IsPublicSafe(last.views[i].ownerDetails)
           /\ last.op = "getPlaylistById" =>
                 \A c \in last.views[i].videos : IsPublicSafe(c.ownerDetails)
           /\ last.op = "getUserChannelProfile" =>
                 IsPublicSafe(last.views[i].profile)

\* C23: when nobody is signed in, isLiked is a field of every tweet and
\* comment view and isSubscribed of every channel profile, and both are
\* false, whatever Like and Subscription edges the store holds.
C23_AnonymousFlagsFalse ==
    (last.user = Null /\ last.status = 200) =>
        \A i \in 1..Len(last.views) :
           /\ last.op \in {"getUserTweets", "getVideoComments"} =>
                 /\ "isLiked" \in DOMAIN last.views[i]
                 /\ last.views[i].isLiked = FALSE
           /\ last.op = "getUserChannelProfile" =>
                 /\ "isSubscribed" \in DOMAIN last.views[i]
                 /\ last.views[i].isSubscribed = FALSE

\* nobody is signed in and the tweet of the view has likes
C23_Witness ==
    /\ last.op = "getUserTweets" /\ last.user = Null /\ last.status = 200
    /\ \E i \in 1..Len(last.views) : last.views[i].likesCount = 2

\* the kind of entity whose views a read answers with
KindOfRead(op) == IF op = "getUserTweets" THEN "tweet" ELSE "comment"

\* C24: for a signed-in viewer V the isLiked of a tweet or comment view is
\* true exactly when the store holds a Like edge of V for that entity, and
\* likesCount is the number of the entity's Like edges; and when V's
\* toggleTweetLike has answered isLiked = b, V's getUserTweets right after
\* it answers isLiked = b for that tweet.
C24_IsLikedMatchesEdge ==
    /\ ( /\ last.op \in {"getUserTweets", "getVideoComments"}
         /\ last.status = 200
         /\ last.user # Null )
        => \A i \in 1..Len(last.views) :
              /\ last.views[i].isLiked
                    <=> \E d \in likes :
                           /\ d.likedBy = last.user
                           /\ LikeTarget(d, KindOfRead(last.op)) = last.views[i]._id
              /\ last.views[i].likesCount
                    = Cardinality({d \in likes :
                         LikeTarget(d, KindOfRead(last.op)) = last.views[i]._id})
    /\ ( /\ serial
         /\ prev.op = "toggleTweetLike" /\ prev.status \in {200, 201}
         /\ last.op = "getUserTweets" /\ last.status = 200
         /\ last.user = prev.user )
        => \A i \in 1..Len(last.views) :
              last.views[i]._id = prev.target
                 => last.views[i].isLiked = prev.flag

\* the Like or Subscription edges of the pair a toggle response is about
EdgesOfResponse(r) ==
    IF r.op = "toggleSubscription"
    THEN {d \in subscriptions : d.subscriber = r.user /\ d.channel = r.target}
    ELSE {d \in likes : KeyOfLike(d) = KeyOfCall(r)}

\* C25: a toggle call that no other call on the same pair overlaps reports
\* the state the pair has in the store when the call completes: isLiked /
\* isSubscribed is true exactly when the edge exists.
C25_ReportedStateIsStored ==
    ( /\ serial
      /\ last.op \in ToggleOps
      /\ last.status \in {200, 201} )
       => (last.flag <=> EdgesOfResponse(last) # {})

\* deleteTweet has answered 200 for the tweet: no handler creates a tweet
\* with the id again, so this is the case exactly when the tweet is gone
\* and no deleteTweet call for it is still before its response
DeleteTweetReturned(t) ==
    /\ \A d \in tweets : d._id # t
    /\ \A r \in InFlight : ~(r.op = "deleteTweet" /\ r.target = t)

\* C26: once deleteTweet(t) has answered with success, no Like edge with
\* tweet = t is in the store, in that state and in every later one,
\* whatever toggleTweetLike calls for t overlap the deletion or follow it:
\* the response of a deleteTweet whose cascade ran is sent in a state
\* without such an edge, and no step after the response brings one in.
\* (A cascade that failed leaves edges behind by itself; that case is C9's
\* and is left out here.)
C26_NoLikeAfterDelete ==
    [][\A t \in TweetIds :
          /\ ( /\ last = NoResponse
               /\ last'.op = "deleteTweet" /\ last'.status = 200
               /\ last'.target = t /\ ~last'.cascadeFailed )
              => TweetLikes(t)' = {}
          /\ (DeleteTweetReturned(t) /\ TweetLikes(t) = {})
              => TweetLikes(t)' = {}
      ]_vars

\* isPublished of the video when the run starts
InitiallyPublished(v) == TRUE

\* C27: after any number N of successful togglePublishStatus calls of the
\* owner on a video, overlapping or not, isPublished of the video differs
\* from its initial value exactly when N is odd.
C27_PublishedIffOdd ==
    \A d \in videos : \A k \in PublishKeys :
       (k[2] = d.owner /\ k[3] = d._id)
          => ((d.isPublished # InitiallyPublished(d._id)) <=> ntoggles[k] = 1)

\* C28 as stated: the Like edges a deleteTweet(t) call removes are exactly
\* the edges with tweet = t when the call succeeds and none when it fails,
\* and no other Like and no Subscription changes.  Both steps of the call
\* are covered: the one that answers, and the one that removes the tweet
\* and leaves the request waiting for Like.deleteMany.
C28_RemovedExactlyOnSuccess ==
    [][( \/ (last = NoResponse /\ last'.op = "deleteTweet")
         \/ \E r \in BagToSet(req') :
               r.op = "deleteTweet" /\ CopiesIn(r, req') > CopiesIn(r, req) )
       => /\ subscriptions' = subscriptions
          /\ likes' \subseteq likes
          /\ likes \ likes' =
                IF last'.op = "deleteTweet" /\ last'.status = 200
                THEN {d \in likes : d.tweet = last'.target}
                ELSE {}
      ]_vars

\* C28, amended: the Like edges a deleteTweet(t) call removes are exactly
\* the edges with tweet = t when the call succeeds and its Like.deleteMany
\* did not throw, some of the edges with tweet = t (possibly none) when the
\* deleteMany threw, and none when the call fails; no other Like and no
\* Subscription changes.
C28_DeleteTweetFrame ==
    [][( \/ (last = NoResponse /\ last'.op = "deleteTweet")
         \/ \E r \in BagToSet(req') :
               r.op = "deleteTweet" /\ CopiesIn(r, req') > CopiesIn(r, req) )
       => /\ subscriptions' = subscriptions
          /\ likes' \subseteq likes
          /\ IF last'.op = "deleteTweet" /\ last'.status = 200
             THEN IF last'.cascadeFailed
                  THEN likes \ likes' \subseteq
                          {d \in likes : d.tweet = last'.target}
                  ELSE likes \ likes' =
                          {d \in likes : d.tweet = last'.target}
             ELSE likes' = likes
      ]_vars

\* a deleteTweet that succeeded and removed likes of its tweet, with a like
\* of a video or a comment and a subscription in the store
C28_Witness ==
    /\ last.op = "deleteTweet" /\ last.status = 200 /\ ~last.cascadeFailed
    /\ last.deletedCount >= 1
    /\ \E d \in likes : d.tweet # last.target
    /\ subscriptions # {}

\* the body of the not-found answer of getVideoById
IsVideoNotFound(r) == r.status = 404 /\ r.records = <<>> /\ r.views = <<>>

\* C29: getVideoById returns a video with isPublished = false only to its
\* owner; any other viewer, the anonymous one included, who asks for it
\* receives the not-found answer that the id of no video receives.
C29_UnpublishedOnlyToOwner ==
    last.op = "getVideoById" =>
       /\ last.status = 200 =>
             \A i \in 1..Len(last.records) :
                \/ last.records[i].isPublished
                \/ last.records[i].owner = last.user
       /\ \A d \in videos :
             (d._id = last.target /\ ~d.isPublished /\ d.owner # last.user)
                => IsVideoNotFound(last)
       /\ (last.status # 400 /\ \A d \in videos : d._id # last.target)
             => IsVideoNotFound(last)

\* a viewer who is not the owner, or nobody, asked for an unpublished video
C29_Witness ==
    /\ last.op = "getVideoById" /\ last.status = 404
    /\ \E d \in videos :
          d._id = last.target /\ ~d.isPublished /\ d.owner # last.user

\* the handlers that change or remove a playlist
PlaylistOps == {"addVideoToPlaylist", "removeVideoFromPlaylist",
                "updatePlaylist", "deletePlaylist"}

\* C30: addVideoToPlaylist, removeVideoFromPlaylist, updatePlaylist and
\* deletePlaylist of a user who is not the owner of the playlist fail with
\* not-found and leave the playlist, its videos included, as it was: a
\* request that passed validation and names a playlist of another user is
\* answered 404 in a step that changes no playlist, no such request reaches
\* the step that writes, and every step that changes or removes a playlist
\* is taken for the owner of that playlist.
C30_NonOwnerPlaylistUnchanged ==
    [][ /\ ( /\ last = NoResponse /\ last'.op \in PlaylistOps
             /\ last'.user # Null
             /\ NonOwner(playlists, last'.target, last'.user) )
            => /\ last'.status = 404
               /\ playlists' = playlists
        /\ \A r \in BagToSet(req') :
              (r.op \in PlaylistOps /\ r.pc \in {"addToSet", "pull"})
                 => ~NonOwner(playlists', r.target, r.user)
        /\ \A d \in playlists \ playlists' : ActsAs(d.owner)
      ]_vars

\* a user who is not the owner asked to remove a video from a playlist that
\* holds it, and was answered not-found
C30_Witness ==
    /\ last.op = "removeVideoFromPlaylist" /\ last.status = 404
    /\ last.user \in Users
    /\ \E d \in playlists :
          /\ d._id = last.target /\ d.owner # last.user
          /\ Includes(d.videos, last.video)
====
